---- MODULE Spec2Model ----
(***************************************************************************)
(* The 6502 core of mihyaeru21/nes: src/src/cpu/mod.rs (Cpu),              *)
(* src/src/cpu/instruction.rs (Instruction) and src/src/cpu/register.rs    *)
(* (Registers, Status), driven through Cpu::new, Cpu::set_rom, Cpu::reset  *)
(* and Cpu::run.                                                           *)
(*                                                                         *)
(* A panic ends the run: the variable `panicked` then holds the panic and  *)
(* no operation is enabled any more.  What the panicking call had already  *)
(* written (the program counter advanced by fetch) stays written.          *)
(***************************************************************************)
EXTENDS Integers, Sequences, FiniteSets, TLC

VARIABLES
    registers,        \* Cpu.registers
    rom,              \* Cpu.rom : Option<Rc<Vec<u8>>>
    ram,              \* Cpu.ram : the Vec<u8> behind the Rc<RefCell<..>>
    panicked,         \* NoPanic, or the panic that ended the run
    overflow_checks,  \* the build: TRUE = overflow checks on (debug), FALSE = off (release)
    call,             \* the last operation called: "new", "set_rom", "reset", "run"
    before,           \* Cpu.registers as they were when that operation was called
    ram_before,       \* the RAM bytes as they were when that operation was called
    rom_before,       \* Cpu.rom as it was when that operation was called
    steps,            \* the calls of Cpu::run since the last reset
    returned,         \* what that operation returned: run's clock count (0: nothing returned)
    instruction       \* Cpu::run's local `instruction`, as the last call decoded it

vars ==
    <<registers, rom, ram, panicked, overflow_checks, call, before, ram_before, rom_before,
      steps, returned, instruction>>

----------------------------------------------------------------------------
(* Widths and the memory map.                                              *)

Byte == 0..255

U8Modulus == 256
U16Modulus == 65536

RamSize == 2048          \* 0x800
RamLast == 2047          \* 0x07ff
IoFirst == 8192          \* 0x2000
IoLast == 8199           \* 0x2007
RomFirst == 32768        \* 0x8000
RomLast == 65535         \* 0xffff
ResetVector == 65532     \* 0xfffc

Lower(w) == w % U8Modulus
Upper(w) == w \div U8Modulus

----------------------------------------------------------------------------
(* Panics.                                                                 *)

NoPanic == "none"
PanicNoRom == "No ROM."
PanicIndex == "index out of bounds"
PanicRead == "Read not implemented!"
PanicWrite == "Write not implemented!"
PanicInstruction == "Instruction is not implemented!"
PanicAddOverflow == "attempt to add with overflow"
PanicNegOverflow == "attempt to negate with overflow"

----------------------------------------------------------------------------
(* register.rs                                                             *)

\* The Status a derived Default would give: every flag false.
StatusAllFalse ==
    [negative |-> FALSE, overflow |-> FALSE, reserved |-> FALSE,
     break_mode |-> FALSE, decimal_mode |-> FALSE, irq_prohibited |-> FALSE,
     zero |-> FALSE, carry |-> FALSE]

\* impl Default for Status
StatusDefault ==
    [negative |-> FALSE, overflow |-> FALSE, reserved |-> TRUE,
     break_mode |-> FALSE, decimal_mode |-> FALSE, irq_prohibited |-> FALSE,
     zero |-> FALSE, carry |-> FALSE]

RegistersDefault ==
    [accumulator |-> 0, index_x |-> 0, index_y |-> 0, stack_pointer |-> 0,
     status |-> StatusDefault, program_counter |-> 0]

----------------------------------------------------------------------------
(* instruction.rs                                                          *)

OpJMP == 76      \* 0x4c
OpSEI == 120     \* 0x78
OpDEY == 136     \* 0x88
OpSTA == 141     \* 0x8d
OpTXS == 154     \* 0x9a
OpLDY == 160     \* 0xa0
OpLDX == 162     \* 0xa2
OpLDA == 169     \* 0xa9
OpLDAX == 189    \* 0xbd
OpBNE == 208     \* 0xd0
OpINX == 232     \* 0xe8

Implemented ==
    {OpJMP, OpSEI, OpDEY, OpSTA, OpTXS, OpLDY, OpLDX, OpLDA, OpLDAX, OpBNE, OpINX}

\* from_opcode with the arms of 0xa0 and 0xa2 exchanged.
from_opcode_exchanged(opcode) ==
    CASE opcode = OpJMP  -> [panicked |-> NoPanic, kind |-> "JMP", addressing |-> "Absolute"]
      [] opcode = OpSEI  -> [panicked |-> NoPanic, kind |-> "SEI", addressing |-> "Implied"]
      [] opcode = OpDEY  -> [panicked |-> NoPanic, kind |-> "DEY", addressing |-> "Implied"]
      [] opcode = OpSTA  -> [panicked |-> NoPanic, kind |-> "STA", addressing |-> "Absolute"]
      [] opcode = OpTXS  -> [panicked |-> NoPanic, kind |-> "TXS", addressing |-> "Implied"]
      [] opcode = OpLDY  -> [panicked |-> NoPanic, kind |-> "LDX", addressing |-> "Immediate"]
      [] opcode = OpLDX  -> [panicked |-> NoPanic, kind |-> "LDY", addressing |-> "Immediate"]
      [] opcode = OpLDA  -> [panicked |-> NoPanic, kind |-> "LDA", addressing |-> "Immediate"]
      [] opcode = OpLDAX -> [panicked |-> NoPanic, kind |-> "LDA", addressing |-> "AbsoluteX"]
      [] opcode = OpBNE  -> [panicked |-> NoPanic, kind |-> "BNE", addressing |-> "Relative"]
      [] opcode = OpINX  -> [panicked |-> NoPanic, kind |-> "INX", addressing |-> "Implied"]
      [] OTHER -> [panicked |-> PanicInstruction, kind |-> "", addressing |-> ""]

\* Instruction::from_opcode: the (kind, addressing) pair, or the panic of the `_` arm.
from_opcode(opcode) ==
    CASE opcode = OpJMP  -> [panicked |-> NoPanic, kind |-> "JMP", addressing |-> "Absolute"]
      [] opcode = OpSEI  -> [panicked |-> NoPanic, kind |-> "SEI", addressing |-> "Implied"]
      [] opcode = OpDEY  -> [panicked |-> NoPanic, kind |-> "DEY", addressing |-> "Implied"]
      [] opcode = OpSTA  -> [panicked |-> NoPanic, kind |-> "STA", addressing |-> "Absolute"]
      [] opcode = OpTXS  -> [panicked |-> NoPanic, kind |-> "TXS", addressing |-> "Implied"]
      [] opcode = OpLDY  -> [panicked |-> NoPanic, kind |-> "LDY", addressing |-> "Immediate"]
      [] opcode = OpLDX  -> [panicked |-> NoPanic, kind |-> "LDX", addressing |-> "Immediate"]
      [] opcode = OpLDA  -> [panicked |-> NoPanic, kind |-> "LDA", addressing |-> "Immediate"]
      [] opcode = OpLDAX -> [panicked |-> NoPanic, kind |-> "LDA", addressing |-> "AbsoluteX"]
      [] opcode = OpBNE  -> [panicked |-> NoPanic, kind |-> "BNE", addressing |-> "Relative"]
      [] opcode = OpINX  -> [panicked |-> NoPanic, kind |-> "INX", addressing |-> "Implied"]
      [] OTHER -> [panicked |-> PanicInstruction, kind |-> "", addressing |-> ""]

\* No instruction was decoded.
NoInstruction == [panicked |-> NoPanic, kind |-> "", addressing |-> ""]

\* Instruction::clock: the base of the kind plus the surcharge of the addressing.
clock(ins) ==
    (CASE ins.kind = "JMP" -> 1
       [] ins.kind \in {"SEI", "DEY", "STA", "TXS", "LDY", "LDX", "LDA", "BNE", "INX"} -> 2)
    + (CASE ins.addressing \in {"Implied", "Immediate", "Relative"} -> 0
         [] ins.addressing \in {"Absolute", "AbsoluteX"} -> 2)

affects_status_negative(ins) ==
    ins.kind \in {"DEY", "LDY", "LDX", "LDA", "TXS", "INX"}

affects_status_zero(ins) ==
    ins.kind \in {"DEY", "LDY", "LDX", "LDA", "TXS", "INX"}

----------------------------------------------------------------------------
(* cpu/mod.rs: the bus.  A cpu value c is [registers, rom, ram, panicked],  *)
(* the fields of Cpu and the panic that ended the call, if one did.        *)

\* A Vec<u8> is kept as its length and its non-zero bytes.
ZeroVec(len) == [len |-> len, bytes |-> [i \in {} |-> 0]]

\* v[i], for i < v.len
VecAt(v, i) == IF i \in DOMAIN v.bytes THEN v.bytes[i] ELSE 0

\* v[i] = b, for i < v.len
VecSet(v, i, b) ==
    [v EXCEPT !.bytes =
        [j \in (IF b = 0 THEN DOMAIN v.bytes \ {i} ELSE DOMAIN v.bytes \cup {i}) |->
            IF j = i THEN b ELSE v.bytes[j]]]

\* Option<Rc<Vec<u8>>>: None, or Some of a Vec<u8>.
NoRom == [some |-> FALSE, len |-> 0, bytes |-> [i \in {} |-> 0]]

Panic(c, msg) == [c EXCEPT !.panicked = msg]

\* Cpu::read
read(c, addr) ==
    CASE addr \in 0..RamLast ->
            IF addr < c.ram.len
            THEN [panicked |-> NoPanic, value |-> VecAt(c.ram, addr)]
            ELSE [panicked |-> PanicIndex, value |-> 0]
      [] addr \in RomFirst..RomLast ->
            LET i == addr - RomFirst IN
            IF c.rom.some
            THEN IF i < c.rom.len
                 THEN [panicked |-> NoPanic, value |-> VecAt(c.rom, i)]
                 ELSE [panicked |-> PanicIndex, value |-> 0]
            ELSE [panicked |-> PanicNoRom, value |-> 0]
      [] OTHER -> [panicked |-> PanicRead, value |-> 0]

\* Cpu::read_word, given its two reads.
WordRead(lower_byte, upper_byte) ==
    IF lower_byte.panicked # NoPanic THEN [panicked |-> lower_byte.panicked, value |-> 0]
    ELSE IF upper_byte.panicked # NoPanic THEN [panicked |-> upper_byte.panicked, value |-> 0]
    ELSE [panicked |-> NoPanic, value |-> lower_byte.value + upper_byte.value * U8Modulus]

\* Cpu::read_word
read_word(c, addr) == WordRead(read(c, addr), read(c, addr + 1))

\* write with the RAM mirrored over 0x0000-0x1fff, as on the hardware.
write_mirrored(c, addr, value) ==
    CASE addr \in 0..(4 * RamSize - 1) -> [c EXCEPT !.ram = VecSet(c.ram, addr % RamSize, value)]
      [] addr \in IoFirst..IoLast -> c
      [] OTHER -> Panic(c, PanicWrite)

\* write with an arm that stores into the program bank.
write_through(c, addr, value) ==
    CASE addr \in 0..RamLast -> [c EXCEPT !.ram = VecSet(c.ram, addr, value)]
      [] addr \in IoFirst..IoLast -> c
      [] addr \in RomFirst..RomLast -> [c EXCEPT !.rom = VecSet(c.rom, addr - RomFirst, value)]
      [] OTHER -> Panic(c, PanicWrite)

\* write without the arm of 0x2000..=0x2007.
write_without_io(c, addr, value) ==
    CASE addr \in 0..RamLast ->
            IF addr < c.ram.len
            THEN [c EXCEPT !.ram = VecSet(c.ram, addr, value)]
            ELSE Panic(c, PanicIndex)
      [] OTHER -> Panic(c, PanicWrite)

\* Cpu::write
write(c, addr, value) ==
    CASE addr \in 0..RamLast ->
            IF addr < c.ram.len
            THEN [c EXCEPT !.ram = VecSet(c.ram, addr, value)]
            ELSE Panic(c, PanicIndex)
      [] addr \in IoFirst..IoLast -> c
      [] OTHER -> Panic(c, PanicWrite)

----------------------------------------------------------------------------
(* cpu/mod.rs: fetching.  An operator named ...Of or ...With is the rest   *)
(* of the function above it, given the result of the call it made.         *)

\* Cpu::fetch after its read r: program_counter += 1 on a u16 is a panic with
\* overflow checks and a wrap without.
FetchOf(c, r) ==
    IF r.panicked # NoPanic THEN [cpu |-> Panic(c, r.panicked), value |-> 0]
    ELSE IF c.registers.program_counter + 1 >= U16Modulus /\ overflow_checks
    THEN [cpu |-> Panic(c, PanicAddOverflow), value |-> 0]
    ELSE [cpu |-> [c EXCEPT !.registers.program_counter =
                                (c.registers.program_counter + 1) % U16Modulus],
          value |-> r.value]

\* Cpu::fetch
fetch(c) == FetchOf(c, read(c, c.registers.program_counter))

\* `upper + (lower << 8)`: the bytes of the word exchanged.
WordOfBigEndian(lower, upper) ==
    IF upper.cpu.panicked # NoPanic THEN [cpu |-> upper.cpu, value |-> 0]
    ELSE [cpu |-> upper.cpu, value |-> upper.value + lower.value * U8Modulus]

\* `lower + (upper << 8)`
WordOf(lower, upper) ==
    IF upper.cpu.panicked # NoPanic THEN [cpu |-> upper.cpu, value |-> 0]
    ELSE [cpu |-> upper.cpu, value |-> lower.value + upper.value * U8Modulus]

UpperOf(lower) ==
    IF lower.cpu.panicked # NoPanic THEN [cpu |-> lower.cpu, value |-> 0]
    ELSE WordOf(lower, fetch(lower.cpu))

\* Cpu::fetch_word
fetch_word(c) == UpperOf(fetch(c))

\* `as i8`
AsI8(b) == IF b >= 128 THEN b - U8Modulus ELSE b

\* i8::abs followed by `as u16`: abs(-128) overflows; with overflow checks it
\* panics, without it is -128 again, which `as u16` sign-extends to 0xff80.
AbsAsU16(offset) ==
    IF offset = -128
    THEN IF overflow_checks
         THEN [panicked |-> PanicNegOverflow, value |-> 0]
         ELSE [panicked |-> NoPanic, value |-> U16Modulus - 128]
    ELSE [panicked |-> NoPanic, value |-> IF offset < 0 THEN -offset ELSE offset]

OperandNone == [kind |-> "None", value |-> 0, addr |-> 0, page_crossed |-> FALSE]
OperandValue(v) == [kind |-> "Value", value |-> v, addr |-> 0, page_crossed |-> FALSE]
OperandAddress(a, p) == [kind |-> "Address", value |-> 0, addr |-> a, page_crossed |-> p]

\* The address of the Relative arm: pc is the program counter after the
\* offset byte, abs the result of offset.abs() as u16.
RelativeAddr(pc, offset, abs) ==
    IF offset >= 0
    THEN (pc + offset) % U16Modulus
    ELSE (pc + U16Modulus - abs.value) % U16Modulus

PageCrossed(from, addr) == Upper(from) # Upper(addr)

RelativeWith(c, offset, abs) ==
    IF offset < 0 /\ abs.panicked # NoPanic
    THEN [cpu |-> Panic(c, abs.panicked), operand |-> OperandNone]
    ELSE [cpu |-> c,
          operand |-> OperandAddress(
              RelativeAddr(c.registers.program_counter, offset, abs),
              PageCrossed(c.registers.program_counter,
                          RelativeAddr(c.registers.program_counter, offset, abs)))]

\* The Relative arm of Cpu::fetch_operand, after the offset byte was fetched.
RelativeOf(f) ==
    IF f.cpu.panicked # NoPanic THEN [cpu |-> f.cpu, operand |-> OperandNone]
    ELSE RelativeWith(f.cpu, AsI8(f.value), AbsAsU16(AsI8(f.value)))

\* saturating_add in place of wrapping_add.
IndexedAddrSaturating(orig, x) == IF orig + x >= U16Modulus THEN U16Modulus - 1 ELSE orig + x

\* `orig.wrapping_add(x)`
IndexedAddr(orig, x) == (orig + x) % U16Modulus

\* The AbsoluteX arm of Cpu::fetch_operand, after the base word was fetched.
AbsoluteXOf(f) ==
    IF f.cpu.panicked # NoPanic THEN [cpu |-> f.cpu, operand |-> OperandNone]
    ELSE [cpu |-> f.cpu,
          operand |-> OperandAddress(
              IndexedAddr(f.value, f.cpu.registers.index_x),
              PageCrossed(f.value, IndexedAddr(f.value, f.cpu.registers.index_x)))]

\* The Immediate arm.
ImmediateOf(f) ==
    IF f.cpu.panicked # NoPanic THEN [cpu |-> f.cpu, operand |-> OperandNone]
    ELSE [cpu |-> f.cpu, operand |-> OperandValue(f.value)]

\* The Absolute arm.
AbsoluteOf(f) ==
    IF f.cpu.panicked # NoPanic THEN [cpu |-> f.cpu, operand |-> OperandNone]
    ELSE [cpu |-> f.cpu, operand |-> OperandAddress(f.value, FALSE)]

\* Cpu::fetch_operand
fetch_operand(c, addressing) ==
    CASE addressing = "Immediate" -> ImmediateOf(fetch(c))
      [] addressing = "Relative" -> RelativeOf(fetch(c))
      [] addressing = "Absolute" -> AbsoluteOf(fetch_word(c))
      [] addressing = "AbsoluteX" -> AbsoluteXOf(fetch_word(c))
      [] OTHER -> [cpu |-> c, operand |-> OperandNone]

----------------------------------------------------------------------------
(* cpu/mod.rs: Cpu::run.  Each arm of `match instruction.kind` gives the    *)
(* cpu after it, calc_result (an Option<u8>) and the clock count so far.   *)

None == [some |-> FALSE, value |-> 0]
Some(v) == [some |-> TRUE, value |-> v]

Arm(c, calc_result, clock_count) ==
    [cpu |-> c, calc_result |-> calc_result, clock_count |-> clock_count]

Surcharge(page_crossed) == IF page_crossed THEN 1 ELSE 0

JMPWith(o, ins) ==
    IF o.cpu.panicked # NoPanic THEN Arm(o.cpu, None, 0)
    ELSE IF o.operand.kind = "Address"
    THEN Arm([o.cpu EXCEPT !.registers.program_counter = o.operand.addr], None, clock(ins))
    ELSE Arm(o.cpu, None, clock(ins))

ExecJMP(c, ins) == JMPWith(fetch_operand(c, ins.addressing), ins)

\* SEI inverting the flag in place of setting it.
ExecSEIToggle(c, ins) ==
    Arm([c EXCEPT !.registers.status.irq_prohibited = ~c.registers.status.irq_prohibited],
        None, clock(ins))

\* SEI setting the carry flag too, as SEC would.
ExecSEIWithCarry(c, ins) ==
    Arm([c EXCEPT !.registers.status.irq_prohibited = TRUE, !.registers.status.carry = TRUE],
        None, clock(ins))

ExecSEI(c, ins) ==
    Arm([c EXCEPT !.registers.status.irq_prohibited = TRUE], None, clock(ins))

\* saturating_sub in place of wrapping_sub.
SaturatingDec(y) == IF y = 0 THEN 0 ELSE y - 1

\* `index_y.wrapping_sub(1)`
WrappingDec(y) == (y + U8Modulus - 1) % U8Modulus

ExecDEY(c, ins) ==
    Arm([c EXCEPT !.registers.index_y = WrappingDec(c.registers.index_y)],
        Some(WrappingDec(c.registers.index_y)), clock(ins))

STAWritten(w, o, ins) ==
    IF w.panicked # NoPanic THEN Arm(w, None, 0)
    ELSE Arm(w, None, clock(ins) + Surcharge(o.operand.page_crossed))

\* STA storing index_x in place of the accumulator.
STAWithIndexX(o, ins) ==
    IF o.cpu.panicked # NoPanic THEN Arm(o.cpu, None, 0)
    ELSE IF o.operand.kind = "Address"
    THEN STAWritten(write(o.cpu, o.operand.addr, o.cpu.registers.index_x), o, ins)
    ELSE Arm(o.cpu, None, clock(ins))

STAWith(o, ins) ==
    IF o.cpu.panicked # NoPanic THEN Arm(o.cpu, None, 0)
    ELSE IF o.operand.kind = "Address"
    THEN STAWritten(write(o.cpu, o.operand.addr, o.cpu.registers.accumulator), o, ins)
    ELSE Arm(o.cpu, None, clock(ins))

ExecSTA(c, ins) == STAWith(fetch_operand(c, ins.addressing), ins)

\* TXS storing the stack address 0x0100 | X in the 16-bit field.
ExecTXSPageOne(c, ins) ==
    Arm([c EXCEPT !.registers.stack_pointer = U8Modulus + c.registers.index_x],
        Some(c.registers.index_x), clock(ins))

ExecTXS(c, ins) ==
    Arm([c EXCEPT !.registers.stack_pointer = c.registers.index_x],
        Some(c.registers.index_x), clock(ins))

LoadRead(r, o, ins, reg) ==
    IF r.panicked # NoPanic THEN Arm(Panic(o.cpu, r.panicked), None, 0)
    ELSE Arm([o.cpu EXCEPT !.registers[reg] = r.value], Some(r.value),
             clock(ins) + Surcharge(o.operand.page_crossed))

LoadWith(o, ins, reg) ==
    IF o.cpu.panicked # NoPanic THEN Arm(o.cpu, None, 0)
    ELSE IF o.operand.kind = "Value"
    THEN Arm([o.cpu EXCEPT !.registers[reg] = o.operand.value],
             Some(o.operand.value), clock(ins))
    ELSE IF o.operand.kind = "Address"
    THEN LoadRead(read(o.cpu, o.operand.addr), o, ins, reg)
    ELSE Arm(o.cpu, Some(o.cpu.registers[reg]), clock(ins))

\* The LDY, LDX and LDA arms, which differ in the register they load.
Load(c, ins, reg) ==
    LoadWith(fetch_operand(c, ins.addressing), ins, reg)

ExecLDY(c, ins) == Load(c, ins, "index_y")

ExecLDX(c, ins) == Load(c, ins, "index_x")

ExecLDA(c, ins) == Load(c, ins, "accumulator")

\* `clock_count += if page_crossed { 2 } else { 1 }`
BranchSurcharge(page_crossed) == IF page_crossed THEN 2 ELSE 1

\* BNE without the test of the zero flag.
BNEWithAlways(o, ins) ==
    IF o.cpu.panicked # NoPanic THEN Arm(o.cpu, None, 0)
    ELSE IF o.operand.kind = "Address"
    THEN Arm([o.cpu EXCEPT !.registers.program_counter = o.operand.addr], None,
             clock(ins) + BranchSurcharge(o.operand.page_crossed))
    ELSE Arm(o.cpu, None, clock(ins))

BNEWith(o, ins) ==
    IF o.cpu.panicked # NoPanic THEN Arm(o.cpu, None, 0)
    ELSE IF o.operand.kind = "Address" /\ ~o.cpu.registers.status.zero
    THEN Arm([o.cpu EXCEPT !.registers.program_counter = o.operand.addr], None,
             clock(ins) + BranchSurcharge(o.operand.page_crossed))
    ELSE Arm(o.cpu, None, clock(ins))

ExecBNE(c, ins) == BNEWith(fetch_operand(c, ins.addressing), ins)

\* saturating_add in place of wrapping_add.
SaturatingInc(x) == IF x + 1 >= U8Modulus THEN U8Modulus - 1 ELSE x + 1

\* `index_x.wrapping_add(1)`
WrappingInc(x) == (x + 1) % U8Modulus

ExecINX(c, ins) ==
    Arm([c EXCEPT !.registers.index_x = WrappingInc(c.registers.index_x)],
        Some(WrappingInc(c.registers.index_x)), clock(ins))

Execute(c, ins) ==
    CASE ins.kind = "JMP" -> ExecJMP(c, ins)
      [] ins.kind = "SEI" -> ExecSEI(c, ins)
      [] ins.kind = "DEY" -> ExecDEY(c, ins)
      [] ins.kind = "STA" -> ExecSTA(c, ins)
      [] ins.kind = "TXS" -> ExecTXS(c, ins)
      [] ins.kind = "LDY" -> ExecLDY(c, ins)
      [] ins.kind = "LDX" -> ExecLDX(c, ins)
      [] ins.kind = "LDA" -> ExecLDA(c, ins)
      [] ins.kind = "BNE" -> ExecBNE(c, ins)
      [] ins.kind = "INX" -> ExecINX(c, ins)

\* `result > 0x80` in place of the shift.
NegativeAbove(result) == result > 128

\* `(result >> 7) == 0x01`
Negative(result) == (result \div 128) = 1

\* `result == 0x00`
Zero(result) == result = 0

\* The `if let Some(result) = calc_result` block that ends Cpu::run.
UpdateStatus(c, ins, calc_result) ==
    IF calc_result.some
    THEN [c EXCEPT
            !.registers.status.negative =
                IF affects_status_negative(ins)
                THEN Negative(calc_result.value) ELSE c.registers.status.negative,
            !.registers.status.zero =
                IF affects_status_zero(ins)
                THEN Zero(calc_result.value) ELSE c.registers.status.zero]
    ELSE c

\* The end of Cpu::run: the flags, and the clock count returned (0 when the
\* step panicked and returned nothing).
Finish(e, decoded) ==
    IF e.cpu.panicked # NoPanic
    THEN [cpu |-> e.cpu, clock_count |-> 0, instruction |-> decoded]
    ELSE [cpu |-> UpdateStatus(e.cpu, decoded, e.calc_result),
          clock_count |-> e.clock_count, instruction |-> decoded]

Dispatch(c, decoded) ==
    IF decoded.panicked # NoPanic
    THEN [cpu |-> Panic(c, decoded.panicked), clock_count |-> 0, instruction |-> NoInstruction]
    ELSE Finish(Execute(c, decoded), decoded)

Decode(f) ==
    IF f.cpu.panicked # NoPanic
    THEN [cpu |-> f.cpu, clock_count |-> 0, instruction |-> NoInstruction]
    ELSE Dispatch(f.cpu, from_opcode(f.value))

\* Cpu::run
run(c) == Decode(fetch(c))

\* reset without `self.registers = Registers::default()`.
ResetVectorOnly(c) ==
    IF read_word(c, ResetVector).panicked # NoPanic
    THEN Panic(c, read_word(c, ResetVector).panicked)
    ELSE [c EXCEPT !.registers.program_counter = read_word(c, ResetVector).value]

\* Cpu::reset, after `self.registers = Registers::default()` gave d.
ResetWith(d, w) ==
    IF w.panicked # NoPanic THEN Panic(d, w.panicked)
    ELSE [d EXCEPT !.registers.program_counter = w.value]

ResetOf(d) == ResetWith(d, read_word(d, ResetVector))

\* Cpu::reset
reset(c) == ResetOf([c EXCEPT !.registers = RegistersDefault])

----------------------------------------------------------------------------
(* ROM images: what Nes::set_rom hands to Cpu::set_rom.  Rom::load makes   *)
(* the program bank header[4] * 0x4000 bytes long; the tests' prepare      *)
(* writes the reset vector and the program into 0x8000 zero bytes.         *)

BankSize == 16384        \* 0x4000
MaxBanks == 2            \* the banks of the largest image loaded
MaxSteps == 514          \* the steps run after a reset

\* The instructions of instruction.rs as bytes.
JMPa(a) == <<OpJMP, Lower(a), Upper(a)>>
SEI == <<OpSEI>>
DEY == <<OpDEY>>
STAa(a) == <<OpSTA, Lower(a), Upper(a)>>
TXS == <<OpTXS>>
LDYi(v) == <<OpLDY, v>>
LDXi(v) == <<OpLDX, v>>
LDAi(v) == <<OpLDA, v>>
LDAx(a) == <<OpLDAX, Lower(a), Upper(a)>>
BNEr(off) == <<OpBNE, off>>
INX == <<OpINX>>

\* rom[at - 0x8000 ..] = bytes
Placed(at, bytes) ==
    [i \in {at - RomFirst + k - 1 : k \in 1..Len(bytes)} |-> bytes[i - (at - RomFirst) + 1]]

\* rom[0x7ffc] and rom[0x7ffd] = the little-endian start address
Vector(start) ==
    [i \in {ResetVector - RomFirst, ResetVector - RomFirst + 1} |->
        IF i = ResetVector - RomFirst THEN Lower(start) ELSE Upper(start)]

\* A Vec<u8> of len bytes: zero but for the reset vector and, over it, `placed`.
Image(len, start, placed) ==
    LET all == placed @@ Vector(start) IN
    [some |-> TRUE, len |-> len,
     bytes |-> [i \in {j \in DOMAIN all : j < len /\ all[j] # 0} |-> all[i]]]

FullSize == 2 * BankSize

\* Code at `start`, entered by reset.
Program(start, code) == Image(FullSize, start, Placed(start, code))

\* One ins for every opcode byte, operand bytes 0x23 0x01.
OpcodeImages == {Program(RomFirst, <<op, 35, 1>>) : op \in Byte}

\* The same code in banks of every loadable size.
SizedImages ==
    {Image(banks * BankSize, RomFirst, Placed(RomFirst, <<op, 35, 1>>)) :
        banks \in 0..MaxBanks, op \in {OpINX, OpJMP}}

\* LDA #v ; BNE off, at places whose branch stays in the page, crosses it, or
\* wraps past 0xffff.
BranchStarts == {32768, 32894, 33020, 65528}    \* 0x8000 0x807e 0x80fc 0xfff8
BranchImages ==
    {Program(start, LDAi(v) \o BNEr(off)) : start \in BranchStarts, v \in {0, 1}, off \in Byte}

\* LDX #v ; TXS ; INX ; LDY #v ; DEY ; SEI ; LDA #v ; JMP back.
RegisterImages ==
    {Program(RomFirst, LDXi(v) \o TXS \o INX \o LDYi(v) \o DEY \o SEI \o LDAi(v) \o JMPa(RomFirst)) :
        v \in Byte}

\* LDX #x ; LDA #v ; STA a ; LDA b,X
StoreAddrs ==
    {0, 85, 255, 2047, 2048, 8191, 8192, 8199, 8200, 32767, 32768, 65535}
BaseAddrs ==
    {0, 256, 511, 1961, 2047, 2048, 8192, 8199, 32767, 32768, 65450, 65535}
IndexValues == {0, 86, 255}
LoadStoreImages ==
    {Program(RomFirst, LDXi(x) \o LDAi(v) \o STAa(a) \o LDAx(b)) :
        x \in IndexValues, v \in {86, 128}, a \in StoreAddrs, b \in BaseAddrs}

\* JMP to every edge of the memory map, to every lower byte in the page
\* 0x80 and to 0xff in every page.
JumpTargets ==
    {2046, 2047, 2048, 8191, 8192, 8199, 8200, 32767, 32768, 65535}
    \cup {RomFirst + lo : lo \in Byte} \cup {U8Modulus * hi + 255 : hi \in Byte}
JumpImages == {Program(RomFirst, JMPa(t)) : t \in JumpTargets}

\* LDA #v ; STA a, for every address a of the I/O region.
IoImages ==
    {Program(RomFirst, LDAi(v) \o STAa(a)) : v \in {0, 86}, a \in IoFirst..IoLast}

\* Code written to RAM and entered by JMP: LDA #b ; STA t+k for every byte b of
\* the code, then JMP t.
RECURSIVE Poke(_, _)
Poke(t, code) ==
    IF code = <<>> THEN <<>>
    ELSE LDAi(Head(code)) \o STAa(t) \o Poke(t + 1, Tail(code))

RamCode(t, code) == Program(RomFirst, Poke(t, code) \o JMPa(t))

RamCodeImages ==
    {RamCode(0, BNEr(off)) : off \in {127, 128, 129, 253, 255}}
    \cup {RamCode(2047, <<OpLDA>>), RamCode(2046, LDAi(86)), RamCode(2045, LDAx(2047))}

\* Instructions on the last bytes of the address space: rom[0x7ffe..] = tail,
\* entered by reset (start in the tail) or by JMP 0xfffd from a start whose
\* upper byte, rom[0x7ffd], is the opcode of the ins at 0xfffd.
TopStarts == {65534, 65535, 36096, 43264, 48384, 53248}  \* 0xfffe 0xffff 0x8d00 0xa900 0xbd00 0xd000
TopTails == {<<OpLDA, 86>>, <<OpBNE, 16>>, <<OpINX, OpINX>>, <<35, 1>>, <<OpSTA, OpJMP>>}
TopImages ==
    {Image(FullSize, start,
           Placed(65534, tail) @@ (IF start < 65534 THEN Placed(start, JMPa(65533)) ELSE Placed(65534, tail))) :
        start \in TopStarts, tail \in TopTails}

\* LDY #y ; DEY ; BNE back to the DEY, away from a page boundary.
LoopStarts == {32768, 36880}    \* 0x8000 0x9010
LoopImages ==
    {Program(start, LDYi(y) \o DEY \o BNEr(253)) : start \in LoopStarts, y \in Byte}

RomImages ==
    OpcodeImages \cup SizedImages \cup BranchImages \cup RegisterImages
    \cup LoadStoreImages \cup JumpImages \cup IoImages \cup RamCodeImages \cup TopImages

----------------------------------------------------------------------------
(* The operations.                                                         *)

Cpu == [registers |-> registers, rom |-> rom, ram |-> ram, panicked |-> panicked]

Init ==
    /\ registers = RegistersDefault                 \* Cpu::new
    /\ rom = NoRom
    /\ ram = ZeroVec(RamSize)                       \* Nes::new: vec![0; 0x800]
    /\ panicked = NoPanic
    /\ overflow_checks \in BOOLEAN
    /\ call = "new"
    /\ before = RegistersDefault
    /\ ram_before = ZeroVec(RamSize)
    /\ rom_before = NoRom
    /\ steps = 0
    /\ returned = 0
    /\ instruction = NoInstruction

\* The cpu c and the value v an operation leaves.
Landed(c, v, decoded) ==
    /\ registers' = c.registers
    /\ rom' = c.rom
    /\ ram' = c.ram
    /\ panicked' = c.panicked
    /\ returned' = v
    /\ instruction' = decoded

\* Cpu::set_rom with one of `images`, called as Nes::set_rom is: once, before
\* the first use.
Configure(images) ==
    /\ panicked = NoPanic
    /\ ~rom.some
    /\ \E image \in images : rom' = image
    /\ call' = "set_rom"
    /\ before' = registers
    /\ ram_before' = ram
    /\ rom_before' = rom
    /\ steps' = 0
    /\ returned' = 0
    /\ UNCHANGED <<registers, ram, panicked, overflow_checks, instruction>>

\* Cpu::set_rom
SetRom == Configure(RomImages)

\* Cpu::reset
Reset ==
    /\ panicked = NoPanic
    /\ Landed(reset(Cpu), 0, NoInstruction)
    /\ call' = "reset"
    /\ before' = registers
    /\ ram_before' = ram
    /\ rom_before' = rom
    /\ steps' = 0
    /\ UNCHANGED overflow_checks

\* Cpu::run, called at most MaxSteps times after a reset.
Run ==
    /\ panicked = NoPanic
    /\ steps < MaxSteps
    /\ steps' = steps + 1
    /\ Landed(run(Cpu).cpu, run(Cpu).clock_count, run(Cpu).instruction)
    /\ call' = "run"
    /\ before' = registers
    /\ ram_before' = ram
    /\ rom_before' = rom
    /\ UNCHANGED overflow_checks

Next == SetRom \/ Reset \/ Run

Spec == Init /\ [][Next]_vars

----------------------------------------------------------------------------
(* The run of main.rs: Nes::new, Nes::set_rom, then Nes::run, which resets *)
(* the Cpu once and calls Cpu::run in a loop that never ends by itself.    *)

\* Nes::set_rom, right after Nes::new
NesSetRom == call = "new" /\ Configure(LoopImages)

\* `self.cpu.reset()` of Nes::run
NesReset == call = "set_rom" /\ Reset

\* `self.cpu.run()` in the loop of Nes::run
NesStep == call \in {"reset", "run"} /\ Run

NesNext == NesSetRom \/ NesReset \/ NesStep

\* ENABLED <<NesStep>>_vars: the guards of NesStep, whose step always changes
\* `steps`.
StepEnabled == call \in {"reset", "run"} /\ panicked = NoPanic /\ steps < MaxSteps

\* WF_vars(NesStep) by its definition, with StepEnabled for the ENABLED: the
\* loop of Nes::run has no exit, so while a step can be made one is made.
StepFair == []<>(~StepEnabled) \/ []<><<NesStep>>_vars

\* main calls set_rom and run one after the other; run resets, then loops.
NesSpec ==
    Init /\ [][NesNext]_vars /\ WF_vars(NesSetRom) /\ WF_vars(NesReset) /\ StepFair

----------------------------------------------------------------------------
(* What the claims speak of: the step just made, Cpu::run called with the   *)
(* registers `before` over the memory of that moment.                      *)

\* The byte at address a (mod 2^16) when the operation was called; -1 where
\* the address holds no byte (neither RAM nor a byte of the configured ROM).
Mem(a) ==
    LET m == a % U16Modulus IN
    IF m <= RamLast THEN VecAt(ram_before, m)
    ELSE IF m >= RomFirst /\ rom_before.some /\ m - RomFirst < rom_before.len
         THEN VecAt(rom_before, m - RomFirst)
    ELSE -1

Stepped == call = "run"
Completed == call = "run" /\ panicked = NoPanic

\* The opcode byte of the step and the one or two bytes after it.
Opcode == Mem(before.program_counter)
Operand1 == Mem(before.program_counter + 1)
Operand2 == Mem(before.program_counter + 2)
OperandWord == Operand1 + 256 * Operand2

\* A byte as a two's-complement number, -128..127.
Signed(b) == IF b >= 128 THEN b - 256 ELSE b

\* The address after a two-byte instruction, and the target of a branch there.
AfterBranch == (before.program_counter + 2) % 65536
BranchTarget == (AfterBranch + Signed(Operand1) + 65536) % 65536

----------------------------------------------------------------------------
(* C1: a BNE step with the zero flag clear leaves the program counter at    *)
(* (address after the offset byte + signed offset) mod 2^16 for every      *)
(* offset byte, 0x80 = -128 included, and the offset arithmetic does not   *)
(* make the step fault.                                                    *)

C1_BranchTargetForEveryOffset ==
    (Stepped /\ Opcode = OpBNE /\ Operand1 \in Byte /\ ~before.status.zero) =>
        /\ panicked # PanicNegOverflow
        /\ (panicked = NoPanic => registers.program_counter = BranchTarget)

----------------------------------------------------------------------------
(* C2: the program counter wraps modulo 2^16 and its overflow is never      *)
(* fatal: a step that fetches its opcode or an operand byte at 0xffff goes *)
(* on with the program counter at 0x0000.                                  *)

C2_ProgramCounterWraps ==
    Stepped =>
        /\ panicked # PanicAddOverflow
        /\ (before.program_counter = 65535 /\ Opcode \in {OpINX, OpDEY, OpTXS, OpSEI})
                => registers.program_counter = 0
        /\ (before.program_counter = 65534 /\ Opcode \in {OpLDA, OpLDX, OpLDY})
                => registers.program_counter = 0

----------------------------------------------------------------------------
(* C3: decoding is defined over all 256 opcode bytes: the 11 bytes of the   *)
(* table decode to their (kind, addressing) pair, and every other byte is  *)
(* an unimplemented-opcode fault: nothing of an instruction is executed    *)
(* (only the program counter has moved past the opcode), no cycle count is *)
(* returned and no operation runs after it.                                *)

OpcodeTable ==
    [op \in Implemented |->
        CASE op = 76  -> <<"JMP", "Absolute">>
          [] op = 120 -> <<"SEI", "Implied">>
          [] op = 136 -> <<"DEY", "Implied">>
          [] op = 141 -> <<"STA", "Absolute">>
          [] op = 154 -> <<"TXS", "Implied">>
          [] op = 160 -> <<"LDY", "Immediate">>
          [] op = 162 -> <<"LDX", "Immediate">>
          [] op = 169 -> <<"LDA", "Immediate">>
          [] op = 189 -> <<"LDA", "AbsoluteX">>
          [] op = 208 -> <<"BNE", "Relative">>
          [] op = 232 -> <<"INX", "Implied">>]

\* The step read its opcode byte and moved the program counter past it.
OpcodeFetched ==
    Stepped /\ Opcode \in Byte /\ ~(before.program_counter = 65535 /\ overflow_checks)

C3_DecodeTotal ==
    /\ Cardinality(Implemented) = 11
    /\ OpcodeFetched =>
        IF Opcode \in Implemented
        THEN /\ panicked # PanicInstruction
             /\ <<instruction.kind, instruction.addressing>> = OpcodeTable[Opcode]
        ELSE /\ panicked = PanicInstruction
             /\ returned = 0
             /\ instruction = NoInstruction
             /\ registers = [before EXCEPT !.program_counter = (before.program_counter + 1) % 65536]
             /\ ram = ram_before
             /\ ~ENABLED Next

C3_Witness ==
    /\ OpcodeFetched
    /\ Opcode = 255
    /\ panicked = PanicInstruction
    /\ before.program_counter = 32768

----------------------------------------------------------------------------
(* C4: a BNE step with the zero flag set is not taken: 2 cycles, program    *)
(* counter just after the two bytes; with the zero flag clear the program  *)
(* counter becomes the branch target, in 3 cycles when the target is in    *)
(* the page of the address after the instruction and in 4 otherwise.       *)

C4_BranchTiming ==
    (Completed /\ Opcode = OpBNE /\ Operand1 \in Byte) =>
        IF before.status.zero
        THEN returned = 2 /\ registers.program_counter = AfterBranch
        ELSE /\ registers.program_counter = BranchTarget
             /\ returned = IF BranchTarget \div 256 = AfterBranch \div 256 THEN 3 ELSE 4

----------------------------------------------------------------------------
(* C5: an LDA absolute-indexed-X step with base B (little-endian from its   *)
(* two operand bytes) and index X loads the accumulator from address       *)
(* (B + X) mod 2^16, in 4 cycles when that address is in the page of B and *)
(* in 5 when it is not.                                                    *)

Effective == (OperandWord + before.index_x) % 65536

C5_IndexedLoad ==
    (Completed /\ Opcode = OpLDAX /\ Operand1 \in Byte /\ Operand2 \in Byte) =>
        /\ registers.accumulator = Mem(Effective)
        /\ returned = IF Effective \div 256 = OperandWord \div 256 THEN 4 ELSE 5

\* The load of 0xffff + 0x56 = 0x0055, which holds the 0x56 stored there.
C5_Witness ==
    /\ Completed /\ Opcode = OpLDAX
    /\ OperandWord = 65535 /\ before.index_x = 86
    /\ registers.accumulator = 86
    /\ returned = 5

----------------------------------------------------------------------------
(* C6: after a step that executes LDA, LDX, LDY, TXS, INX or DEY the        *)
(* negative flag is bit 7 of the byte r the step put in its register and   *)
(* the zero flag is r = 0.                                                 *)

\* The register the step wrote.
Result ==
    CASE Opcode \in {OpLDA, OpLDAX} -> registers.accumulator
      [] Opcode \in {OpLDX, OpINX} -> registers.index_x
      [] Opcode \in {OpLDY, OpDEY} -> registers.index_y
      [] Opcode = OpTXS -> registers.stack_pointer

C6_Flags ==
    (Completed /\ Opcode \in {OpLDA, OpLDAX, OpLDX, OpLDY, OpTXS, OpINX, OpDEY}) =>
        /\ registers.status.negative = (Result >= 128)
        /\ registers.status.zero = (Result = 0)

\* TXS of X = 0x80: negative, not zero, after a step that had left them otherwise.
C6_Witness ==
    /\ Completed /\ Opcode = OpTXS
    /\ registers.stack_pointer = 128
    /\ registers.status.negative /\ ~registers.status.zero

----------------------------------------------------------------------------
(* C7: after reset, whatever the registers were, accumulator, X, Y and      *)
(* stack pointer are 0, every flag but the reserved one is false, and the  *)
(* program counter is the little-endian word at 0xfffc/0xfffd; a second    *)
(* reset right after it, over the same ROM, gives the same registers.      *)

C7_Reset ==
    (call = "reset" /\ panicked = NoPanic) =>
        /\ registers =
            [accumulator |-> 0, index_x |-> 0, index_y |-> 0, stack_pointer |-> 0,
             status |-> [negative |-> FALSE, overflow |-> FALSE, reserved |-> TRUE,
                         break_mode |-> FALSE, decimal_mode |-> FALSE,
                         irq_prohibited |-> FALSE, zero |-> FALSE, carry |-> FALSE],
             program_counter |-> Mem(65532) + 256 * Mem(65533)]
        /\ reset(Cpu).panicked = NoPanic
        /\ reset(Cpu).registers = registers

\* A reset of registers that steps had changed.
C7_Witness ==
    /\ call = "reset" /\ panicked = NoPanic
    /\ before.accumulator = 255 /\ before.index_x = 0 /\ before.index_y = 254
    /\ before.stack_pointer = 255
    /\ before.status.irq_prohibited /\ before.status.negative
    /\ registers.program_counter = 32768

----------------------------------------------------------------------------
(* C8: a bus read faults if and only if its address is outside RAM          *)
(* 0x0000-0x07ff, I/O 0x2000-0x2007 and ROM 0x8000-0xffff; a read in the   *)
(* I/O region does not fault.  Stated of the opcode fetch, which reads the *)
(* program counter's address and leaves the program counter there when the *)
(* read faults, and of the data read of LDA absolute-indexed-X.            *)

InRegion(a) == a \in 0..2047 \/ a \in 8192..8199 \/ a \in 32768..65535

ReadFaulted == panicked \in {PanicRead, PanicNoRom, PanicIndex}

\* The step's opcode fetch faulted.
OpcodeReadFaulted ==
    Stepped /\ ReadFaulted /\ registers.program_counter = before.program_counter

\* The step is an LDA absolute-indexed-X whose three bytes were fetched.
IndexedFetched ==
    /\ Stepped /\ Opcode = OpLDAX /\ Operand1 \in Byte /\ Operand2 \in Byte
    /\ panicked # PanicAddOverflow

C8_ReadFaultsOutsideRegions ==
    /\ Stepped => (OpcodeReadFaulted <=> ~InRegion(before.program_counter))
    /\ IndexedFetched => (ReadFaulted <=> ~InRegion(Effective))

----------------------------------------------------------------------------
(* C9: a STA step whose operand address is in ROM (0x8000-0xffff) or        *)
(* unmapped (0x0800-0x1fff, 0x2008-0x7fff) faults and changes no byte of   *)
(* RAM or ROM.                                                             *)

NotWritable(a) == a \in 2048..8191 \/ a \in 8200..32767 \/ a \in 32768..65535

\* The step is a STA whose three bytes were fetched.
StoreFetched ==
    /\ Stepped /\ Opcode = OpSTA /\ Operand1 \in Byte /\ Operand2 \in Byte
    /\ panicked # PanicAddOverflow

C9_StoreOutsideRamFaults ==
    [][(StoreFetched /\ NotWritable(OperandWord))' =>
            /\ panicked' = PanicWrite
            /\ returned' = 0
            /\ ram' = ram
            /\ rom' = rom]_vars

\* STA 0x0800, the first address after RAM, with a non-zero accumulator.
C9_Witness ==
    /\ StoreFetched /\ OperandWord = 2048
    /\ before.accumulator = 86
    /\ panicked = PanicWrite

----------------------------------------------------------------------------
(* C10: after a STA absolute step with accumulator v and operand address a  *)
(* in 0x0000-0x07ff the RAM byte at a is v, every other RAM byte is as it  *)
(* was, the step returned 4 cycles, and a read of a returns v.             *)

C10_RamRoundTrip ==
    (Completed /\ Opcode = OpSTA /\ Operand1 \in Byte /\ Operand2 \in Byte
        /\ OperandWord \in 0..2047) =>
        /\ \A a \in 0..2047 :
              VecAt(ram, a) = IF a = OperandWord THEN before.accumulator ELSE VecAt(ram_before, a)
        /\ returned = 4
        /\ read(Cpu, OperandWord) = [panicked |-> NoPanic, value |-> before.accumulator]

\* The second store of code poked into RAM: 0x0000 already holds 0xd0.
C10_Witness ==
    /\ Completed /\ Opcode = OpSTA
    /\ OperandWord = 1 /\ before.accumulator = 128
    /\ VecAt(ram, 0) = 208 /\ VecAt(ram, 1) = 128

----------------------------------------------------------------------------
(* C11: a step that executes a defined instruction leaves everything       *)
(* outside its effect as it was: of the registers only the program         *)
(* counter, the destination (accumulator for LDA, X for LDX and INX, Y for *)
(* LDY and DEY, stack pointer for TXS, interrupt-disable flag for SEI) and,*)
(* for LDA, LDX, LDY, TXS, INX and DEY only, the negative and zero flags   *)
(* may change; JMP, STA, BNE and SEI keep the negative and zero flags; no  *)
(* step changes the carry, overflow, decimal, break or reserved flag; and  *)
(* only STA changes memory.                                                *)

\* The register the instruction of the step may write.
Destination ==
    CASE Opcode \in {OpLDA, OpLDAX} -> {"accumulator"}
      [] Opcode \in {OpLDX, OpINX} -> {"index_x"}
      [] Opcode \in {OpLDY, OpDEY} -> {"index_y"}
      [] Opcode = OpTXS -> {"stack_pointer"}
      [] OTHER -> {}

C11_Frame ==
    (Stepped /\ Opcode \in Implemented) =>
        /\ \A r \in {"accumulator", "index_x", "index_y", "stack_pointer"} \ Destination :
              registers[r] = before[r]
        /\ \A f \in {"carry", "overflow", "decimal_mode", "break_mode", "reserved"} :
              registers.status[f] = before.status[f]
        /\ Opcode # OpSEI => registers.status.irq_prohibited = before.status.irq_prohibited
        /\ Opcode \in {OpJMP, OpSTA, OpBNE, OpSEI} =>
              /\ registers.status.negative = before.status.negative
              /\ registers.status.zero = before.status.zero
        /\ Opcode # OpSTA => ram = ram_before
        /\ rom = rom_before

\* SEI after DEY had made Y = 0xff and set the negative flag.
C11_Witness ==
    /\ Completed /\ Opcode = OpSEI
    /\ before.status.negative /\ registers.status.negative
    /\ ~before.status.irq_prohibited /\ registers.status.irq_prohibited
    /\ registers.index_y = 255 /\ registers.index_x = 1

----------------------------------------------------------------------------
(* C12: INX makes X = (X + 1) mod 256 and DEY makes Y = (Y - 1) mod 256,   *)
(* for every value of the register, in 2 cycles and without a fault: INX   *)
(* of 0xff gives 0x00 with negative false and zero true, DEY of 0x00 gives *)
(* 0xff with negative true and zero false.                                 *)

C12_IncDecWrap ==
    /\ (OpcodeFetched /\ Opcode = OpINX) =>
          /\ panicked = NoPanic /\ returned = 2
          /\ registers.index_x = (before.index_x + 1) % 256
          /\ before.index_x = 255 =>
                registers.index_x = 0 /\ ~registers.status.negative /\ registers.status.zero
    /\ (OpcodeFetched /\ Opcode = OpDEY) =>
          /\ panicked = NoPanic /\ returned = 2
          /\ registers.index_y = (before.index_y + 255) % 256
          /\ before.index_y = 0 =>
                registers.index_y = 255 /\ registers.status.negative /\ ~registers.status.zero

\* INX of 0xff.
C12_Witness ==
    /\ Completed /\ Opcode = OpINX
    /\ before.index_x = 255 /\ registers.index_x = 0
    /\ registers.status.zero /\ ~registers.status.negative

----------------------------------------------------------------------------
(* C13: a JMP absolute step (0x4c) with operand bytes lo, hi leaves the    *)
(* program counter at lo + 256 * hi, for every lo and hi, returns 3 cycles *)
(* whatever the address (no page-crossing surcharge), and changes no other *)
(* register, no flag and no byte of memory.                                *)

C13_JumpAbsolute ==
    (Completed /\ Opcode = OpJMP) =>
        /\ Operand1 \in Byte /\ Operand2 \in Byte
        /\ registers = [before EXCEPT !.program_counter = Operand1 + 256 * Operand2]
        /\ returned = 3
        /\ ram = ram_before
        /\ rom = rom_before

\* Bytes 4C FF 80 at 0x8000.
C13_Witness ==
    /\ Completed /\ Opcode = OpJMP
    /\ before.program_counter = 32768
    /\ Operand1 = 255 /\ Operand2 = 128
    /\ registers.program_counter = 33023
    /\ returned = 3

----------------------------------------------------------------------------
(* C14: a STA step whose operand address is in the I/O region              *)
(* 0x2000-0x2007 does not fault: it returns 4 cycles, leaves the program   *)
(* counter after the 3 bytes of the instruction, and changes no byte of    *)
(* RAM or ROM and no register but the program counter.                     *)

C14_StoreToIo ==
    (StoreFetched /\ OperandWord \in 8192..8199) =>
        /\ panicked = NoPanic
        /\ returned = 4
        /\ registers = [before EXCEPT !.program_counter = (before.program_counter + 3) % 65536]
        /\ ram = ram_before
        /\ rom = rom_before

\* STA 0x2007, the last address of the region, with a non-zero accumulator.
C14_Witness ==
    /\ StoreFetched /\ OperandWord = 8199
    /\ before.accumulator = 86
    /\ panicked = NoPanic /\ returned = 4

----------------------------------------------------------------------------
(* C15: the reserved status flag is true in every state that construction, *)
(* set_rom, reset and steps can reach.                                     *)

C15_ReservedSet == registers.status.reserved

\* After steps that wrote every other part of the registers, and a reset.
C15_Witness ==
    /\ call = "reset" /\ panicked = NoPanic
    /\ before.status.irq_prohibited /\ before.status.reserved
    /\ before.accumulator = 255
    /\ registers.status.reserved

----------------------------------------------------------------------------
(* C16: once a ROM image is configured, no reset and no step, a STA to any *)
(* address and a faulting step included, changes a byte of it.             *)

C16_RomImmutable == [][rom.some => rom' = rom]_vars

\* A STA to 0x8000, the address of the first byte of the program.
C16_Witness ==
    /\ StoreFetched /\ OperandWord = 32768
    /\ before.accumulator = 86
    /\ rom.some /\ VecAt(rom, 0) = OpLDX

----------------------------------------------------------------------------
(* C17: with a ROM image configured, a read of an address a in             *)
(* 0x8000-0xffff succeeds and returns the byte of the program bank at      *)
(* a - 0x8000, for every bank size the loader produces (multiples of       *)
(* 0x4000 bytes, a single bank of 0x4000 bytes included): reset can        *)
(* always read the reset vector at 0xfffc/0xfffd.  With no ROM configured  *)
(* the read is a fault.                                                    *)

\* The ROM at the call is the program of a file with at least one bank.
BankConfigured == rom_before.some /\ rom_before.len >= BankSize

C17_RomReadEveryBankSize ==
    /\ (call = "reset" /\ BankConfigured) =>
          /\ panicked = NoPanic
          /\ registers.program_counter = Mem(65532) + 256 * Mem(65533)
    /\ (Stepped /\ BankConfigured /\ before.program_counter \in 32768..65535) =>
          ~OpcodeReadFaulted
    /\ (call = "reset" /\ ~rom_before.some) => panicked = PanicNoRom

----------------------------------------------------------------------------
(* C18: a step that does not fault, other than JMP and a taken BNE,        *)
(* advances the program counter by 1 + n, n the operand length of the      *)
(* addressing mode: 0 for Implied, 1 for Immediate and Relative, 2 for     *)
(* Absolute and Absolute-indexed-X; a BNE not taken advances it by 2.      *)

OperandLength ==
    CASE instruction.addressing = "Implied" -> 0
      [] instruction.addressing \in {"Immediate", "Relative"} -> 1
      [] instruction.addressing \in {"Absolute", "AbsoluteX"} -> 2

C18_ProgramCounterAdvance ==
    (Completed /\ Opcode # OpJMP /\ ~(Opcode = OpBNE /\ ~before.status.zero)) =>
        /\ registers.program_counter = (before.program_counter + 1 + OperandLength) % 65536
        /\ Opcode = OpBNE => OperandLength = 1
        /\ Opcode \in {OpSEI, OpDEY, OpTXS, OpINX} => OperandLength = 0
        /\ Opcode \in {OpLDA, OpLDX, OpLDY} => OperandLength = 1
        /\ Opcode \in {OpSTA, OpLDAX} => OperandLength = 2

\* A BNE with the zero flag set and an offset that would have gone elsewhere.
C18_Witness ==
    /\ Completed /\ Opcode = OpBNE /\ before.status.zero
    /\ Operand1 = 16
    /\ registers.program_counter = before.program_counter + 2

----------------------------------------------------------------------------
(* C19: the stack pointer, kept in a 16-bit field, holds a value in 0..255 *)
(* in every state that resets and steps can reach: it is only set to 0 by  *)
(* reset or to the 8-bit X by TXS.                                         *)

C19_StackPointerByte ==
    /\ registers.stack_pointer \in 0..255
    /\ (Completed /\ Opcode = OpTXS) => registers.stack_pointer = before.index_x
    /\ (call = "reset") => registers.stack_pointer = 0
    /\ (Stepped /\ Opcode \in Byte \ {OpTXS}) => registers.stack_pointer = before.stack_pointer

\* TXS of the largest X.
C19_Witness ==
    /\ Completed /\ Opcode = OpTXS
    /\ before.index_x = 255 /\ before.stack_pointer = 0
    /\ registers.stack_pointer = 255

----------------------------------------------------------------------------
(* C20: the interrupt-disable flag is a latch between resets: false right  *)
(* after reset, true once a step executes SEI, and then true in every      *)
(* state further steps reach, until the next reset.                        *)

C20_InterruptDisableLatch ==
    /\ [](call = "reset" => ~registers.status.irq_prohibited)
    /\ []((Completed /\ Opcode = OpSEI) => registers.status.irq_prohibited)
    /\ [][(registers.status.irq_prohibited /\ call' = "run") =>
              registers'.status.irq_prohibited]_vars

\* The second SEI of a loop: the flag was set already and stays set.
C20_Witness ==
    /\ Completed /\ Opcode = OpSEI
    /\ before.status.irq_prohibited
    /\ registers.status.irq_prohibited

----------------------------------------------------------------------------
(* C21: the counted loop 88 D0 FD (DEY ; BNE back to the DEY), in ROM away *)
(* from a page boundary, terminates: from the program counter at the DEY   *)
(* with any Y in 0..255, stepping leads to the program counter just after  *)
(* the BNE with Y = 0 and the zero flag set, after exactly 2 * Y steps     *)
(* when Y > 0 and 512 steps when Y = 0, with no fault on the way.          *)

\* The address of the DEY: the reset vector's start plus the two bytes of
\* the LDY that gives Y its initial value.
LoopAt == Mem(65532) + 256 * Mem(65533) + 2

\* The Y the loop started with: the operand of the LDY.
LoopY == Mem(LoopAt - 1)

\* The steps made since the program counter was at the DEY.
LoopSteps == steps - 1

\* The loop of the image is the counted loop, entered by a reset.
InLoop ==
    /\ steps >= 1 /\ rom.some
    /\ Mem(LoopAt - 2) = OpLDY /\ Mem(LoopAt) = OpDEY
    /\ Mem(LoopAt + 1) = OpBNE /\ Mem(LoopAt + 2) = 253

LoopExited ==
    /\ InLoop /\ panicked = NoPanic
    /\ registers.program_counter = LoopAt + 3

LoopCount == IF LoopY > 0 THEN 2 * LoopY ELSE 512

C21_LoopTerminates ==
    <>(LoopExited /\ registers.index_y = 0 /\ registers.status.zero /\ LoopSteps = LoopCount)

\* The exit of the longest loop, the one entered with Y = 0.
C21_Witness ==
    /\ LoopExited /\ LoopY = 0
    /\ steps = 513
    /\ registers.index_y = 0 /\ registers.status.zero

====
